---- MODULE Spec2Model ----
(***************************************************************************)
(* Model of the wsl_exec build target (src/wsl_exec.py, class              *)
(* WslExecCommand): the path translator wsl_path, the command assembler    *)
(* wsl_cmd, the environment packager wsl_env and the orchestration run.    *)
(*                                                                         *)
(* Python strings are modelled as sequences of one-character strings, so   *)
(* that slicing, indexing, regular-expression matching and replacement are *)
(* computed character by character as the code computes them.  Python      *)
(* dicts are modelled as sequences of <<key, value>> pairs with distinct   *)
(* keys, which keeps their insertion (= iteration) order.                  *)
(***************************************************************************)
EXTENDS Integers, Sequences, FiniteSets, TLC

VARIABLES
    pc,          \* position of the call being modelled: "call", "done", "error"
    path,        \* wsl_path: argument
    path_out,    \* wsl_path: returned string
    cmd,         \* wsl_cmd: argument cmd (list of strings)
    cwd,         \* wsl_cmd: argument cwd (string)
    cmd_out,     \* wsl_cmd: returned list
    env,         \* wsl_env: argument env (dict)
    env_out,     \* wsl_env: returned dict
    args,        \* run: its arguments [wsl_cmd, wsl_working_dir, wsl_env, kwargs]
    window_vars, \* run: what self.window.extract_variables() returns
    variables,   \* run: the variable table after the unix_ counterparts were added
    super_args   \* run: the keyword arguments handed to ExecCommand.run

vars == <<pc, path, path_out, cmd, cwd, cmd_out, env, env_out,
          args, window_vars, variables, super_args>>

----------------------------------------------------------------------------
(* Bounds of the model *)

\* a path input is the concatenation of at most MaxPieces pieces of PathPieces
MaxPieces == 4
\* a command list has at most MaxCmd elements
MaxCmd == 3
\* an environment mapping has at most MaxEnv entries
MaxEnv == 3

----------------------------------------------------------------------------
(* Python string primitives *)

BS == "\\"

Min(a, b) == IF a < b THEN a ELSE b

\* s[i:j] for 0 <= i <= j (Python slices clamp to the length, never raise)
PySlice(s, i, j) == SubSeq(s, i + 1, Min(j, Len(s)))

\* s[i:]
PyFrom(s, i) == SubSeq(s, i + 1, Len(s))

\* s.startswith(p)
StartsWith(s, p) == Len(s) >= Len(p) /\ SubSeq(s, 1, Len(p)) = p

\* s.replace(old, new) for one-character old and new
Replace(s, old, new) == [i \in 1..Len(s) |-> IF s[i] = old THEN new ELSE s[i]]

UpperChars == <<"A","B","C","D","E","F","G","H","I","J","K","L","M",
                "N","O","P","Q","R","S","T","U","V","W","X","Y","Z">>
LowerChars == <<"a","b","c","d","e","f","g","h","i","j","k","l","m",
                "n","o","p","q","r","s","t","u","v","w","x","y","z">>

\* c.lower() for a one-character string
Lower(c) ==
    IF \E i \in 1..Len(UpperChars) : UpperChars[i] = c
    THEN LowerChars[CHOOSE i \in 1..Len(UpperChars) : UpperChars[i] = c]
    ELSE c

\* sep.join(list)
RECURSIVE Join(_, _)
Join(list, sep) ==
    IF list = <<>> THEN <<>>
    ELSE IF Len(list) = 1 THEN list[1]
    ELSE list[1] \o sep \o Join(Tail(list), sep)

----------------------------------------------------------------------------
(* wsl_path: src/wsl_exec.py lines 218-234 *)

\* the literal part of r"\\\\wsl\.localhost\\[^\\]*": \\wsl.localhost\
UncLiteral == <<BS, BS, "w","s","l",".","l","o","c","a","l","h","o","s","t", BS>>

\* the [^\\]* part: the longest run of non-backslash characters is consumed
RECURSIVE SkipNonBackslash(_)
SkipNonBackslash(s) ==
    IF s = <<>> \/ Head(s) = BS THEN s ELSE SkipNonBackslash(Tail(s))

\* does the pattern match at the head of s
UncMatches(s) == StartsWith(s, UncLiteral)

\* re.sub(r"\\\\wsl\.localhost\\[^\\]*", "", s): every leftmost non-overlapping
\* match, anywhere in s, is replaced by the empty string
RECURSIVE ReSubUnc(_)
ReSubUnc(s) ==
    IF s = <<>> THEN <<>>
    ELSE IF UncMatches(s)
         THEN ReSubUnc(SkipNonBackslash(PyFrom(s, Len(UncLiteral))))
         ELSE <<Head(s)>> \o ReSubUnc(Tail(s))

\* mutant: no lower() on the drive letter
wsl_path_nolower(p) ==
    LET q == IF StartsWith(p, <<BS, BS>>) THEN ReSubUnc(p)
             ELSE IF PySlice(p, 1, 3) = <<":", BS>>
                  THEN <<"/","m","n","t","/">> \o <<p[1]>> \o PyFrom(p, 2)
                  ELSE p
    IN  Replace(q, BS, "/")

\* mutant: the distro part [^\\]* of the pattern is left out
wsl_path_nodistro(p) ==
    LET q == IF StartsWith(p, <<BS, BS>>)
             THEN IF UncMatches(p) THEN PyFrom(p, Len(UncLiteral)) ELSE p
             ELSE IF PySlice(p, 1, 3) = <<":", BS>>
                  THEN <<"/","m","n","t","/">> \o <<Lower(p[1])>> \o PyFrom(p, 2)
                  ELSE p
    IN  Replace(q, BS, "/")

\* mutant: the substitution is applied without the startswith guard
wsl_path_noguard(p) ==
    LET q == IF ReSubUnc(p) # p THEN ReSubUnc(p)
             ELSE IF PySlice(p, 1, 3) = <<":", BS>>
                  THEN <<"/","m","n","t","/">> \o <<Lower(p[1])>> \o PyFrom(p, 2)
                  ELSE p
    IN  Replace(q, BS, "/")

wsl_path(p) ==
    LET q == IF StartsWith(p, <<BS, BS>>) THEN ReSubUnc(p)
             ELSE IF PySlice(p, 1, 3) = <<":", BS>>
                  THEN <<"/","m","n","t","/">> \o <<Lower(p[1])>> \o PyFrom(p, 2)
                  ELSE p
    IN  Replace(q, BS, "/")

----------------------------------------------------------------------------
(* wsl_cmd: src/wsl_exec.py lines 174-195 *)

\* mutant: the ";" separating the directory change from the command is lost
wsl_cmd_nosep(c, d) ==
    LET wsl == IF d # <<>> THEN << <<"w","s","l">>, <<"c","d">>, wsl_path(d) >>
               ELSE << <<"w","s","l">> >>
    IN  wsl \o c

wsl_cmd(c, d) ==
    LET wsl == IF d # <<>>
               THEN << <<"w","s","l">> >> \o << <<"c","d">>, wsl_path(d), <<";">> >>
               ELSE << <<"w","s","l">> >>
    IN  wsl \o c

----------------------------------------------------------------------------
(* Python dict primitives on sequences of <<key, value>> pairs *)

\* list(d) / d.keys()
DictKeys(d) == [i \in 1..Len(d) |-> d[i][1]]

\* k in d
DictHas(d, k) == \E i \in 1..Len(d) : d[i][1] = k

\* d[k], for k in d
DictGet(d, k) == d[CHOOSE i \in 1..Len(d) : d[i][1] = k][2]

\* d[k] = v: an existing key keeps its position, a new key goes last
DictSet(d, k, v) ==
    IF DictHas(d, k)
    THEN [i \in 1..Len(d) |-> IF d[i][1] = k THEN <<k, v>> ELSE d[i]]
    ELSE Append(d, <<k, v>>)

\* d.pop(k) as far as d is concerned, for k in d
DictPop(d, k) == SelectSeq(d, LAMBDA e : e[1] # k)

----------------------------------------------------------------------------
(* wsl_env: src/wsl_exec.py lines 197-216 *)

WSLENV == <<"W","S","L","E","N","V">>

Flags == {"l", "p", "u", "w"}

\* mutant: the flagged key is copied, not popped
RECURSIVE wsl_env_loop_nopop(_, _)
wsl_env_loop_nopop(e, keys) ==
    IF keys = <<>> THEN [err |-> FALSE, env |-> e]
    ELSE LET key == Head(keys)
             n   == Len(key)
         IN  IF n < 2 THEN [err |-> TRUE, env |-> <<>>]
             ELSE IF key[n - 1] = "/" /\ key[n] \in Flags
                  THEN wsl_env_loop_nopop(DictSet(e, SubSeq(key, 1, n - 2),
                                                  DictGet(e, key)),
                                          Tail(keys))
                  ELSE wsl_env_loop_nopop(e, Tail(keys))

\* the loop "for key in list(env)" over the snapshot keys; key[-2] raises
\* IndexError on a key shorter than two characters, and nothing is returned
RECURSIVE wsl_env_loop(_, _)
wsl_env_loop(e, keys) ==
    IF keys = <<>> THEN [err |-> FALSE, env |-> e]
    ELSE LET key == Head(keys)
             n   == Len(key)
         IN  IF n < 2 THEN [err |-> TRUE, env |-> <<>>]
             ELSE IF key[n - 1] = "/" /\ key[n] \in Flags
                  THEN wsl_env_loop(DictSet(DictPop(e, key), SubSeq(key, 1, n - 2),
                                            DictGet(e, key)),
                                    Tail(keys))
                  ELSE wsl_env_loop(e, Tail(keys))

wsl_env(e) ==
    LET e1 == DictSet(e, WSLENV, Join(DictKeys(e), <<":">>))
    IN  wsl_env_loop(e1, DictKeys(e1))

----------------------------------------------------------------------------
(* Inputs of the three translation functions *)

WslLocalhost == <<"w","s","l",".","l","o","c","a","l","h","o","s","t">>
WslDollar    == <<"w","s","l","$">>

\* building blocks of path strings: the UNC prefixes of the two host names under
\* which Windows exposes the subsystem, a backslash, drive prefixes with an
\* upper-case, a lower-case and a non-letter first character, names, a slash
PathPieces ==
    { <<BS, BS>> \o WslLocalhost \o <<BS>>,
      <<BS, BS>> \o WslDollar \o <<BS>>,
      <<BS>>,
      <<"C", ":">>,
      <<"z", ":">>,
      <<"1", ":">>,
      <<"D">>,
      <<"a">>,
      <<"/">> }

RECURSIVE PathsOf(_)
PathsOf(n) ==
    IF n = 0 THEN {<<>>}
    ELSE LET shorter == PathsOf(n - 1)
         IN  shorter \cup {q \o piece : q \in shorter, piece \in PathPieces}

PathInputs == PathsOf(MaxPieces)

\* working directories given to wsl_cmd
CwdInputs == PathsOf(2) \cup
             { <<"C", ":", BS, "D">>,
               <<BS, BS>> \o WslLocalhost \o <<BS, "D", BS, "a">> }

CmdWords == { <<"a">>, <<"l","s">> }

RECURSIVE SeqsUpTo(_, _)
SeqsUpTo(S, n) ==
    IF n = 0 THEN {<<>>}
    ELSE LET shorter == SeqsUpTo(S, n - 1)
         IN  shorter \cup {Append(q, x) : q \in shorter, x \in S}

CmdInputs == SeqsUpTo(CmdWords, MaxCmd)

\* environment keys: plain names and names with a conversion flag
EnvNames == { <<"A">>, <<"A","B">>, WSLENV }
EnvKeys  == EnvNames \cup {n \o <<"/", f>> : n \in EnvNames, f \in {"p", "l"}}
                     \cup { <<"A","B","/","p","/","l">> }
EnvVals  == { <<"1">>, <<"2">> }

\* dicts: sequences of pairs with distinct keys
EnvInputs ==
    {d \in SeqsUpTo(EnvKeys \X EnvVals, MaxEnv) :
        \A i, j \in 1..Len(d) : i # j => d[i][1] # d[j][1]}

----------------------------------------------------------------------------
(* The calls of the translation functions *)

InitPath ==
    /\ pc = "call"
    /\ path \in PathInputs
    /\ path_out = <<>>
    /\ cmd = <<>> /\ cwd = <<>> /\ cmd_out = <<>>
    /\ env = <<>> /\ env_out = <<>>
    /\ args = <<>> /\ window_vars = <<>> /\ variables = <<>> /\ super_args = <<>>

CallWslPath ==
    /\ pc = "call"
    /\ path_out' = wsl_path(path)
    /\ pc' = "done"
    /\ UNCHANGED <<path, cmd, cwd, cmd_out, env, env_out,
                   args, window_vars, variables, super_args>>

SpecPath == InitPath /\ [][CallWslPath]_vars

InitCmd ==
    /\ pc = "call"
    /\ cmd \in CmdInputs
    /\ cwd \in CwdInputs
    /\ cmd_out = <<>>
    /\ path = <<>> /\ path_out = <<>>
    /\ env = <<>> /\ env_out = <<>>
    /\ args = <<>> /\ window_vars = <<>> /\ variables = <<>> /\ super_args = <<>>

CallWslCmd ==
    /\ pc = "call"
    /\ cmd_out' = wsl_cmd(cmd, cwd)
    /\ pc' = "done"
    /\ UNCHANGED <<path, path_out, cmd, cwd, env, env_out,
                   args, window_vars, variables, super_args>>

SpecCmd == InitCmd /\ [][CallWslCmd]_vars

InitEnv ==
    /\ pc = "call"
    /\ env \in EnvInputs
    /\ env_out = <<>>
    /\ path = <<>> /\ path_out = <<>>
    /\ cmd = <<>> /\ cwd = <<>> /\ cmd_out = <<>>
    /\ args = <<>> /\ window_vars = <<>> /\ variables = <<>> /\ super_args = <<>>

\* the call returns the packaged mapping, or ends in IndexError
CallWslEnv ==
    /\ pc = "call"
    /\ LET r == wsl_env(env)
       IN  /\ pc' = IF r.err THEN "error" ELSE "done"
           /\ env_out' = r.env
    /\ UNCHANGED <<path, path_out, cmd, cwd, cmd_out, env,
                   args, window_vars, variables, super_args>>

SpecEnv == InitEnv /\ [][CallWslEnv]_vars

----------------------------------------------------------------------------
(* Values of keyword arguments: strings, lists of strings, dicts, None *)

StrV(x)  == [t |-> "str",  s |-> x,    l |-> <<>>, d |-> <<>>]
ListV(x) == [t |-> "list", s |-> <<>>, l |-> x,    d |-> <<>>]
DictV(x) == [t |-> "dict", s |-> <<>>, l |-> <<>>, d |-> x]
NoneV    == [t |-> "none", s |-> <<>>, l |-> <<>>, d |-> <<>>]

\* Python truth value: None, "", [] and {} are false
Truthy(v) == v.s # <<>> \/ v.l # <<>> \/ v.d # <<>>

----------------------------------------------------------------------------
(* sublime.expand_variables: textual substitution of $name tokens, done by  *)
(* the editor; a name the table does not hold expands to the empty string   *)

Digits == {"0","1","2","3","4","5","6","7","8","9"}

IsIdentChar(c) ==
    \/ \E i \in 1..Len(UpperChars) : UpperChars[i] = c \/ LowerChars[i] = c
    \/ c \in Digits
    \/ c = "_"

\* the longest prefix of s made of identifier characters
RECURSIVE IdentPrefix(_)
IdentPrefix(s) ==
    IF s = <<>> \/ ~IsIdentChar(Head(s)) THEN <<>>
    ELSE <<Head(s)>> \o IdentPrefix(Tail(s))

RECURSIVE ExpandStr(_, _)
ExpandStr(s, vt) ==
    IF s = <<>> THEN <<>>
    ELSE IF Head(s) = "$" /\ IdentPrefix(Tail(s)) # <<>>
         THEN LET name == IdentPrefix(Tail(s))
              IN  (IF name \in DOMAIN vt THEN vt[name] ELSE <<>>)
                  \o ExpandStr(PyFrom(s, 1 + Len(name)), vt)
         ELSE <<Head(s)>> \o ExpandStr(Tail(s), vt)

\* strings are expanded, lists element by element, dicts value by value
ExpandValue(v, vt) ==
    [t |-> v.t,
     s |-> ExpandStr(v.s, vt),
     l |-> [i \in 1..Len(v.l) |-> ExpandStr(v.l[i], vt)],
     d |-> [i \in 1..Len(v.d) |-> <<v.d[i][1], ExpandStr(v.d[i][2], vt)>>]]

expand_variables(a, vt) == [k \in DOMAIN a |-> ExpandValue(a[k], vt)]

----------------------------------------------------------------------------
(* run: src/wsl_exec.py lines 143-172 *)

N_file         == <<"f","i","l","e">>
N_file_path    == <<"f","i","l","e","_","p","a","t","h">>
N_folder       == <<"f","o","l","d","e","r">>
N_packages     == <<"p","a","c","k","a","g","e","s">>
N_project      == <<"p","r","o","j","e","c","t">>
N_project_path == <<"p","r","o","j","e","c","t","_","p","a","t","h">>
N_platform     == <<"p","l","a","t","f","o","r","m">>
UnixPrefix     == <<"u","n","i","x","_">>

\* the set literal the loop of run iterates over
PathVars == {N_file, N_file_path, N_folder, N_packages, N_project, N_project_path}

\* mutant: kwargs "working_dir" is not dropped
DropArgs_keepwd(kwargs) ==
    [k \in DOMAIN kwargs \ {"env", "shell_cmd"} |-> kwargs[k]]

\* the dict comprehension: kwargs without env, shell_cmd and working_dir
DropArgs(kwargs) ==
    [k \in DOMAIN kwargs \ {"env", "shell_cmd", "working_dir"} |-> kwargs[k]]

\* mutant: the translated value replaces the original variable as well
RECURSIVE AddUnixVars_overwrite(_, _)
AddUnixVars_overwrite(vt, todo) ==
    IF todo = {} THEN vt
    ELSE LET var == CHOOSE x \in todo : TRUE
         IN  AddUnixVars_overwrite(
                 (var :> wsl_path(vt[var])) @@
                 ((UnixPrefix \o var) :> wsl_path(vt[var])) @@ vt,
                 todo \ {var})

\* the loop: variables["unix_" + var] = self.wsl_path(variables[var]); the
\* order in which the set is iterated does not matter, the keys written are
\* distinct and none of them is read
RECURSIVE AddUnixVars(_, _)
AddUnixVars(vt, todo) ==
    IF todo = {} THEN vt
    ELSE LET var == CHOOSE x \in todo : TRUE
         IN  AddUnixVars(((UnixPrefix \o var) :> wsl_path(vt[var])) @@ vt,
                         todo \ {var})

\* inputs of run
Dollar(n) == <<"$">> \o n

RunCmdInputs ==
    { << <<"a">> >>,
      << <<"l","s">>, Dollar(UnixPrefix \o N_file) >>,
      << Dollar(N_file) >> }

RunCwdInputs ==
    { <<>>,
      Dollar(N_folder),
      Dollar(UnixPrefix \o N_folder),
      <<"C", ":", BS, "D">>,
      <<"/", "a">> }

RunEnvInputs ==
    { NoneV,
      DictV(<<>>),
      DictV(<< << <<"A","B","/","p">>, Dollar(N_file) >> >>),
      DictV(<< << <<"A","B">>, <<"1">> >>, << <<"A","B","/","l">>, Dollar(N_folder) >> >>),
      DictV(<< << <<"A">>, <<"1">> >> >>) }

\* what a build system may pass besides the wsl_ parameters, with the value it
\* has when it is passed
RawKwargs ==
    [ cmd         |-> ListV(<< <<"r","a","w">> >>),
      shell_cmd   |-> StrV(<<"r","a","w">>),
      env         |-> DictV(<< << <<"R">>, <<"1">> >> >>),
      working_dir |-> StrV(<<"C", ":", BS, "r">>),
      path        |-> StrV(Dollar(N_folder)) ]

KwargsInputs == {[k \in K |-> RawKwargs[k]] : K \in SUBSET (DOMAIN RawKwargs)}

\* the places the edited file and the packages may live in
Locations ==
    { <<"C", ":", BS, "D">>,
      <<"z", ":", BS, "a">>,
      <<BS, BS>> \o WslLocalhost \o <<BS, "D", BS, "a">>,
      <<BS, BS>> \o WslDollar \o <<BS, "D", BS, "a">> }

\* self.window.extract_variables(): the variables the class documents
WindowVars(folder, packages) ==
    (N_file         :> folder \o <<BS, "a">>) @@
    (N_file_path    :> folder) @@
    (N_folder       :> folder) @@
    (N_packages     :> packages) @@
    (N_project      :> folder \o <<BS, "D">>) @@
    (N_project_path :> folder) @@
    (N_platform     :> <<"W","i","n","d","o","w","s">>)

InitRun ==
    /\ pc = "call"
    /\ args \in [wsl_cmd : RunCmdInputs, wsl_working_dir : RunCwdInputs,
                 wsl_env : RunEnvInputs, kwargs : KwargsInputs]
    /\ window_vars \in {WindowVars(f, p) : f \in Locations,
                                           p \in {<<"C", ":", BS, "a">>, <<"/", "a">>}}
    /\ variables = <<>> /\ super_args = <<>>
    /\ path = <<>> /\ path_out = <<>>
    /\ cmd = <<>> /\ cwd = <<>> /\ cmd_out = <<>>
    /\ env = <<>> /\ env_out = <<>>

\* one invocation of run, up to the call of super().run; an IndexError of
\* wsl_env ends it before anything is handed on
run ==
    /\ pc = "call"
    /\ LET wsl_args0 == DropArgs(args.kwargs)
           wsl_args1 == ("cmd" :> ListV(wsl_cmd(args.wsl_cmd, args.wsl_working_dir)))
                        @@ wsl_args0
           packaged  == wsl_env(args.wsl_env.d)
           wsl_args2 == IF Truthy(args.wsl_env)
                        THEN ("env" :> DictV(packaged.env)) @@ wsl_args1
                        ELSE wsl_args1
           vt        == AddUnixVars(window_vars, PathVars)
       IN  IF Truthy(args.wsl_env) /\ packaged.err
           THEN /\ pc' = "error"
                /\ UNCHANGED <<variables, super_args>>
           ELSE /\ pc' = "done"
                /\ variables' = vt
                /\ super_args' = expand_variables(wsl_args2, vt)
    /\ UNCHANGED <<path, path_out, cmd, cwd, cmd_out, env, env_out,
                   args, window_vars>>

SpecRun == InitRun /\ [][run]_vars

----------------------------------------------------------------------------
(* Vocabulary of the properties *)

IsLetter(c) == \E i \in 1..Len(UpperChars) : UpperChars[i] = c \/ LowerChars[i] = c

\* the pieces of s between the occurrences of the character sep
RECURSIVE Split(_, _)
Split(s, sep) ==
    IF \A i \in 1..Len(s) : s[i] # sep THEN <<s>>
    ELSE LET i == CHOOSE k \in 1..Len(s) :
                      s[k] = sep /\ \A m \in 1..(k - 1) : s[m] # sep
         IN  <<SubSeq(s, 1, i - 1)>> \o Split(SubSeq(s, i + 1, Len(s)), sep)

\* s with its segments joined by forward slashes instead of backslashes
SlashForm(s) == Join(Split(s, BS), <<"/">>)

\* sub occurs somewhere in s
Contains(s, sub) ==
    \E i \in 0..(Len(s) - Len(sub)) : SubSeq(s, i + 1, i + Len(sub)) = sub

\* <letter>:\<segments>
IsDrivePath(p) == Len(p) >= 3 /\ IsLetter(p[1]) /\ p[2] = ":" /\ p[3] = BS

\* the host names under which Windows exposes the subsystem's file systems
SubsystemHosts == {WslLocalhost, WslDollar}

\* p begins with \\<host>\<distro>\
BeginsWithUnc(p, host) ==
    /\ StartsWith(p, <<BS, BS>> \o host \o <<BS>>)
    /\ Contains(PyFrom(p, Len(host) + 3), <<BS>>)

\* the segments of \\<host>\<distro>\<segments>
UncSegments(p, host) == Tail(Split(PyFrom(p, Len(host) + 3), BS))

\* p is \\<host>\<distro>\<segments> with path segments, that is non-empty
\* names (a backslash may end the path)
IsUncPath(p, host) ==
    /\ BeginsWithUnc(p, host)
    /\ ~Contains(PyFrom(p, Len(host) + 3), <<BS, BS>>)

----------------------------------------------------------------------------
(* Properties of wsl_path, under SpecPath *)

\* C1: a local drive path <letter>:\<segments> is returned as
\* /mnt/<lower-cased letter>/<segments joined by forward slashes>
C1_DrivePath ==
    (pc = "done" /\ IsDrivePath(path)) =>
        path_out = <<"/","m","n","t","/">> \o <<Lower(path[1])>> \o <<"/">>
                   \o SlashForm(PyFrom(path, 3))

C1_Witness ==
    /\ pc = "done"
    /\ path = <<"C", ":", BS, "D", BS>>
    /\ path_out = <<"/","m","n","t","/","c","/","D","/">>

C9_Unrecognised ==
    (/\ pc = "done"
     /\ \A host \in SubsystemHosts : ~BeginsWithUnc(path, host)
     /\ ~IsDrivePath(path)) =>
        path_out = SlashForm(path)

\* C9 amended: a string that does not begin with two backslashes and whose
\* second and third characters are not :\ and a string that begins with two
\* backslashes and holds no \\wsl.localhost\ is returned with every backslash
\* replaced by a forward slash and no other change
C9_PassThrough ==
    (/\ pc = "done"
     /\ \/ ~StartsWith(path, <<BS, BS>>) /\ PySlice(path, 1, 3) # <<":", BS>>
        \/ StartsWith(path, <<BS, BS>>)
           /\ ~Contains(path, <<BS, BS>> \o WslLocalhost \o <<BS>>)) =>
        path_out = SlashForm(path)

C9_Witness ==
    /\ pc = "done"
    /\ path = <<BS, BS>> \o WslDollar \o <<BS, "D", BS, "a">>
    /\ path_out = <<"/", "/">> \o WslDollar \o <<"/", "D", "/", "a">>

----------------------------------------------------------------------------
(* Properties of wsl_cmd, under SpecCmd *)

\* C3: the result is ["wsl"] + cmd for an empty cwd and
\* ["wsl", "cd", wsl_path(cwd), ";"] + cmd otherwise, cmd in its order
C3_Assemble ==
    pc = "done" =>
        /\ cmd_out[1] = <<"w","s","l">>
        /\ cwd = <<>> =>
               /\ Len(cmd_out) = Len(cmd) + 1
               /\ \A i \in 1..Len(cmd) : cmd_out[i + 1] = cmd[i]
        /\ cwd # <<>> =>
               /\ Len(cmd_out) = Len(cmd) + 4
               /\ cmd_out[2] = <<"c","d">>
               /\ cmd_out[3] = wsl_path(cwd)
               /\ cmd_out[4] = <<";">>
               /\ \A i \in 1..Len(cmd) : cmd_out[i + 4] = cmd[i]

C3_Witness ==
    /\ pc = "done"
    /\ cwd = <<"C", ":", BS, "D">>
    /\ cmd = << <<"l","s">>, <<"a">> >>
    /\ cmd_out = << <<"w","s","l">>, <<"c","d">>, <<"/","m","n","t","/","c","/","D">>,
                    <<";">>, <<"l","s">>, <<"a">> >>

----------------------------------------------------------------------------
(* Properties of wsl_env, under SpecEnv *)

IsPlain(key) == \A i \in 1..Len(key) : key[i] # "/"

Unflagged(key) == SubSeq(key, 1, Len(key) - 2)

\* key is name/flag for a plain name and a conversion flag
IsFlagged(key) ==
    /\ Len(key) >= 3 /\ key[Len(key) - 1] = "/" /\ key[Len(key)] \in Flags
    /\ IsPlain(Unflagged(key))

\* the documented shape of an environment mapping: every key is a plain name
\* or a plain name with one conversion flag
IsDocumented(e) == \A i \in 1..Len(e) : IsPlain(e[i][1]) \/ IsFlagged(e[i][1])

\* the position of the last key of e that is name with a flag
LastFlagged(e, name) ==
    CHOOSE j \in 1..Len(e) :
        /\ IsFlagged(e[j][1]) /\ Unflagged(e[j][1]) = name
        /\ \A m \in (j + 1)..Len(e) :
               ~(IsFlagged(e[m][1]) /\ Unflagged(e[m][1]) = name)

\* C4: the returned mapping has a WSLENV entry and its value is the input keys
\* joined by colons, in the order of the input
C4_Manifest ==
    pc = "done" =>
        /\ DictHas(env_out, WSLENV)
        /\ DictGet(env_out, WSLENV) = Join(DictKeys(env), <<":">>)

\* C5 as claimed: for every input key name/flag the returned mapping maps name
\* to the value name/flag had in the input, and holds no key name/flag
C5_Unflagged ==
    pc = "done" =>
        \A i \in 1..Len(env) :
            IsFlagged(env[i][1]) =>
                /\ DictHas(env_out, Unflagged(env[i][1]))
                /\ DictGet(env_out, Unflagged(env[i][1])) = env[i][2]
                /\ ~DictHas(env_out, env[i][1])

\* C5 amended: for an input of the documented shape and every input key
\* name/flag, the returned mapping holds no key name/flag and maps name to the
\* value of the last input key that is name with a flag (the value of name/flag
\* itself when name has one flag only), the plain name being in the input or not
C5_LastFlagWins ==
    (pc = "done" /\ IsDocumented(env)) =>
        \A i \in 1..Len(env) :
            IsFlagged(env[i][1]) =>
                /\ DictHas(env_out, Unflagged(env[i][1]))
                /\ DictGet(env_out, Unflagged(env[i][1]))
                       = env[LastFlagged(env, Unflagged(env[i][1]))][2]
                /\ ~DictHas(env_out, env[i][1])

C5_Witness ==
    /\ pc = "done"
    /\ env = << << <<"A","B","/","p">>, <<"1">> >>,
                << <<"A","B">>, <<"1">> >>,
                << <<"A","B","/","l">>, <<"2">> >> >>
    /\ DictGet(env_out, <<"A","B">>) = <<"2">>
    /\ Len(env_out) = 2

\* C8: the call never ends in an error
C8_Total == pc # "error"

----------------------------------------------------------------------------
(* Properties of run, under SpecRun *)

Forbidden == {"cmd", "shell_cmd", "env", "working_dir"}

C10_ExpandFirst ==
    (pc = "done" /\ args.wsl_working_dir # <<>>) =>
        super_args["cmd"].l[3] = wsl_path(ExpandStr(args.wsl_working_dir, variables))

====
